---- MODULE Spec2Model ----
(***************************************************************************)
(* Bridge lifecycle of relwave-app (src-tauri): locating and spawning the  *)
(* bridge process, installing it in the BridgeProcess slot, writing lines  *)
(* to its stdin and forwarding its stdout/stderr lines as events.          *)
(*                                                                         *)
(* The repository holds the resolution pipeline twice: bridge/process.rs   *)
(* and main.rs.  The variable impl says which of the two is running.       *)
(*                                                                         *)
(* Strings that the code takes apart (BRIDGE_DEV_CMD, the bytes of the     *)
(* pipes) are sequences of one-character strings; paths are sequences of   *)
(* path components, so that Path::join is Append.                          *)
(* Modelling assumptions: every path is valid Unicode (to_str() is Some)   *)
(* and canonicalize() of an existing path succeeds.                        *)
(***************************************************************************)
EXTENDS Integers, Sequences, FiniteSets, TLC

\* ------------------------------------------------------------------ bounds
\* at most this many of the probed files exist
MaxExisting == 2
\* longest BRIDGE_DEV_CMD value, in characters
MaxCmdLen == 4
\* bridge_write calls made in one run
MaxCalls == 3
\* bytes the child writes on stdout and stderr together
MaxOut == 3

\* ------------------------------------------------------------- environment
Impls == {"process", "main"}

SPACE == " "
TAB == "\t"
QUOTE == "\""
WhiteSpace == {SPACE, TAB}
Chars == {"a", QUOTE, SPACE, TAB}

RECURSIVE StringsUpTo(_)
StringsUpTo(n) ==
  IF n = 0 THEN {<<>>}
  ELSE LET shorter == StringsUpTo(n - 1)
       IN  shorter \cup {Append(s, c) : s \in {t \in shorter : Len(t) = n - 1}, c \in Chars}

\* Path::join
join(base, comps) == base \o comps

RES == <<"$RESOURCE_DIR">>
EXE == <<"$EXE_DIR">>
CWD == <<"$CWD">>
Exts == <<"cjs", "js">>
index(ext) == "index." \o ext

\* the native binary's name: #[cfg(target_os = "windows")] bridge.exe, else bridge
bridge_exe_name(win) == IF win THEN "bridge.exe" ELSE "bridge"

local_rel(ext) == <<"bridge", "dist", index(ext)>>
parent_rel(ext) == <<"..", "..", "bridge", "dist", index(ext)>>

\* every file one of the two pipelines may look at, plus the non-Windows name
\* of the relocated bundled binary
Paths ==
  {join(b, <<n>>) : b \in {RES, EXE}, n \in {"bridge", "bridge.exe"}}
  \cup {join(b, <<"_up_", n>>) : b \in {RES, EXE}, n \in {"bridge", "bridge.exe"}}
  \cup {join(b, <<"bridge", "dist", index(e)>>) : b \in {RES, EXE}, e \in {"cjs", "js"}}
  \cup {join(b, <<"_up_", "bridge", "dist", index(e)>>) : b \in {RES, EXE}, e \in {"cjs", "js"}}
  \cup {join(RES, <<index(e)>>) : e \in {"cjs", "js"}}
  \cup {local_rel(e) : e \in {"cjs", "js"}}
  \cup {parent_rel(e) : e \in {"cjs", "js"}}

RECURSIVE SubsetsUpTo(_, _)
SubsetsUpTo(S, n) ==
  IF n = 0 THEN {{}}
  ELSE LET smaller == SubsetsUpTo(S, n - 1)
       IN  smaller \cup {T \cup {x} : T \in smaller, x \in S}

\* Path::canonicalize of a path relative to the working directory: absolute,
\* with the leading ".." components resolved
RECURSIVE canonicalize_from(_, _)
canonicalize_from(dir, p) ==
  IF p # <<>> /\ Head(p) = ".."
  THEN canonicalize_from(Append(dir, ".."), Tail(p))
  ELSE dir \o p
canonicalize(p) == canonicalize_from(CWD, p)

VARIABLES
  impl,      \* which of the two pipelines runs
  windows,   \* cfg(target_os = "windows")
  debug,     \* cfg(debug_assertions)
  cmdline,   \* BRIDGE_DEV_CMD: [set, val]
  resDir,    \* resource_dir() is Ok
  exeDir,    \* current_exe() is Ok and has a parent
  exists,    \* the files that exist
  pc,        \* where the setup thread is
  attempts,  \* the try_spawn calls so far, in order
  visited,   \* the strategies evaluated so far, in order
  result,    \* what spawn_bridge_process returned
  slot,      \* the managed BridgeProcess: [managed, pid], pid 0 for None
  lockHolder, \* the bridge_write call holding the slot's mutex, 0 for none
  wpc,       \* where each bridge_write caller is
  wdata,     \* the data of each caller's current call
  wcall,     \* each caller's current call, an index into calls
  calls,     \* the bridge_write calls in the order they took the lock
  stdin,     \* the bytes put on the child's stdin pipe, each with its call
  stdinClosed, \* the child closed its end of the stdin pipe (or exited)
  flushed,   \* how many bytes of stdin had been written at the last flush
  rpc,       \* where each reader thread is
  outBytes,  \* the bytes the child wrote on each output stream
  rpos,      \* how many of them the stream's reader has consumed
  outClosed, \* the child closed the stream (or exited)
  events     \* the emit calls made on each stream's channel, in order

envVars == <<impl, windows, debug, cmdline, resDir, exeDir, exists>>
locVars == <<pc, attempts, visited, result>>
writeVars == <<lockHolder, wpc, wdata, wcall, calls, stdin, stdinClosed, flushed>>
readVars == <<rpc, outBytes, rpos, outClosed, events>>
vars == <<envVars, locVars, slot, writeVars, readVars>>

\* ------------------------------------------------------------- candidates
Range(f) == {f[i] : i \in DOMAIN f}
Last(s) == s[Len(s)]

Cand(prog, args) == [prog |-> prog, args |-> args]
NoCand == Cand(<<>>, <<>>)
\* a native binary is run by its path, without arguments
Binary(path) == Cand(path, <<>>)
\* a script is run as: node <path>
Node(path) == Cand(<<"node">>, <<path>>)

\* the files of a probe list that exist, in probe order
Existing(paths, ex) == SelectSeq(paths, LAMBDA p : p \in ex)
Map(f(_), s) == [i \in DOMAIN s |-> f(s[i])]

\* str::split(' ') in place of split_whitespace: a tab separates nothing and
\* two spaces enclose an empty part
RECURSIVE split_space_scan(_, _, _)
split_space_scan(s, cur, acc) ==
  IF s = <<>> THEN Append(acc, cur)
  ELSE IF Head(s) = SPACE
       THEN split_space_scan(Tail(s), <<>>, Append(acc, cur))
       ELSE split_space_scan(Tail(s), Append(cur, Head(s)), acc)
split_on_space(s) == split_space_scan(s, <<>>, <<>>)

\* str::split_whitespace: the maximal runs of non-whitespace, left to right
RECURSIVE split_scan(_, _, _)
split_scan(s, cur, acc) ==
  IF s = <<>> THEN (IF cur = <<>> THEN acc ELSE Append(acc, cur))
  ELSE IF Head(s) \in WhiteSpace
       THEN split_scan(Tail(s), <<>>, IF cur = <<>> THEN acc ELSE Append(acc, cur))
       ELSE split_scan(Tail(s), Append(cur, Head(s)), acc)
split_whitespace(s) == split_scan(s, <<>>, <<>>)

\* 1) BRIDGE_DEV_CMD: parts[0] is the program, the other parts its arguments
try_override(env) ==
  IF ~env.set THEN <<>>
  ELSE LET parts == split_whitespace(env.val)
       IN  IF parts = <<>> THEN <<>>
           ELSE <<Cand(Head(parts), Tail(parts))>>

\* 2) process.rs: the bundled binary, then _up_/bridge.exe
try_bundled_exe(win, ex) ==
  Map(Binary, Existing(<<join(RES, <<bridge_exe_name(win)>>),
                         join(RES, <<"_up_", "bridge.exe">>)>>, ex))

\* 2) main.rs: _up_/bridge.exe is looked at only when the direct binary is absent
main_bundled_exe(win, ex) ==
  IF join(RES, <<bridge_exe_name(win)>>) \in ex
  THEN <<Binary(join(RES, <<bridge_exe_name(win)>>))>>
  ELSE Map(Binary, Existing(<<join(RES, <<"_up_", "bridge.exe">>)>>, ex))

\* for base_path in search_paths { for ext in ["cjs", "js"] { ... } }
scripts_in(dirs) ==
  IF dirs = <<>> THEN <<>>
  ELSE LET RECURSIVE walk(_)
           walk(ds) == IF ds = <<>> THEN <<>>
                       ELSE <<join(Head(ds), <<index(Exts[1])>>),
                              join(Head(ds), <<index(Exts[2])>>)>> \o walk(Tail(ds))
       IN  walk(dirs)

\* 2b) bundled scripts: bridge/dist, the resource root, _up_/bridge/dist
\* (the three loops of main.rs visit the same files in the same order)
try_bundled_scripts(ex) ==
  Map(Node, Existing(scripts_in(<<join(RES, <<"bridge", "dist">>),
                                  RES,
                                  join(RES, <<"_up_", "bridge", "dist">>)>>), ex))

\* 3) process.rs: bridge(.exe) and _up_/bridge(.exe) beside the executable
try_exe_dir_binary(win, ex) ==
  Map(Binary, Existing(<<join(EXE, <<bridge_exe_name(win)>>),
                         join(EXE, <<"_up_", bridge_exe_name(win)>>)>>, ex))

\* 3) main.rs, in a Windows build only: bridge.exe and _up_/bridge.exe
main_exe_dir_binary(ex) ==
  Map(Binary, Existing(<<join(EXE, <<"bridge.exe">>),
                         join(EXE, <<"_up_", "bridge.exe">>)>>, ex))

\* 3) process.rs: scripts beside the executable, directory by directory
try_exe_dir_scripts(ex) ==
  Map(Node, Existing(scripts_in(<<join(EXE, <<"bridge", "dist">>),
                                  join(EXE, <<"_up_", "bridge", "dist">>)>>), ex))

\* 3) main.rs: one loop over the extensions, both directories inside it
main_exe_dir_scripts(ex) ==
  Map(Node, Existing(<<join(EXE, <<"bridge", "dist", index(Exts[1])>>),
                       join(EXE, <<"_up_", "bridge", "dist", index(Exts[1])>>),
                       join(EXE, <<"bridge", "dist", index(Exts[2])>>),
                       join(EXE, <<"_up_", "bridge", "dist", index(Exts[2])>>)>>, ex))

\* 4) ./bridge/dist/index.{cjs,js}, run by its canonical path
try_local_dev_path(ex) ==
  Map(LAMBDA p : Node(canonicalize(p)),
      Existing(<<local_rel(Exts[1]), local_rel(Exts[2])>>, ex))

\* 5) ../../bridge/dist/index.{cjs,js}, run by its canonical path
try_parent_dev_path(ex) ==
  Map(LAMBDA p : Node(canonicalize(p)),
      Existing(<<parent_rel(Exts[1]), parent_rel(Exts[2])>>, ex))

\* 6) the pnpm dev runner
try_pnpm_dev(win) ==
  IF win
  THEN <<Cand(<<"cmd">>, <<<<"/C">>, <<"pnpm">>, <<"--prefix">>, <<"..\\bridge">>, <<"dev">>>>)>>
  ELSE <<Cand(<<"pnpm">>, <<<<"--prefix">>, <<"../bridge">>, <<"dev">>>>)>>

\* the override looked at after the discovery instead of before it
StrategyOrder_override_last(i, win, dbg) ==
  <<"bundled_exe", "bundled_scripts", "exe_dir_binary", "exe_dir_scripts",
    "local_dev", "parent_dev", "override">>
  \o (IF dbg THEN <<"pnpm_dev">> ELSE <<>>)

\* the order in which spawn_bridge_process evaluates its strategies.
\* process.rs: binary before scripts beside the executable; main.rs: scripts
\* first, and the binary only in a Windows build.  pnpm only in a debug build.
StrategyOrder(i, win, dbg) ==
  (IF i = "process"
   THEN <<"override", "bundled_exe", "bundled_scripts",
          "exe_dir_binary", "exe_dir_scripts", "local_dev", "parent_dev">>
   ELSE IF win
   THEN <<"override", "bundled_exe", "bundled_scripts",
          "exe_dir_scripts", "exe_dir_binary", "local_dev", "parent_dev">>
   ELSE <<"override", "bundled_exe", "bundled_scripts",
          "exe_dir_scripts", "local_dev", "parent_dev">>)
  \o (IF dbg THEN <<"pnpm_dev">> ELSE <<>>)

IndexOf(s, x) == CHOOSE k \in DOMAIN s : s[k] = x

\* a strategy without a child ends the resolution (a ? on its result)
After_abort(order, s) == "exhausted"

\* the pipeline started over after its last strategy
After_again(order, s) ==
  IF IndexOf(order, s) < Len(order) THEN order[IndexOf(order, s) + 1] ELSE Head(order)

\* where control goes when a strategy returned no child: to the strategy
\* that follows it in order, or to the final Err
After(order, s) ==
  IF IndexOf(order, s) < Len(order) THEN order[IndexOf(order, s) + 1] ELSE "exhausted"

\* the error of the last try_spawn handed to the caller
Err_individual(msg) ==
  [kind |-> "err", pid |-> 0, cand |-> [prog |-> <<>>, args |-> <<>>],
   msg |-> "failed to spawn"]

ErrAllFailed == "All bridge spawn attempts failed."
NoResult == [kind |-> "none", pid |-> 0, cand |-> NoCand, msg |-> ""]
\* Ok(child)
Ok(pid, cand) == [kind |-> "ok", pid |-> pid, cand |-> cand, msg |-> ""]
\* Err(message)
Err(msg) == [kind |-> "err", pid |-> 0, cand |-> NoCand, msg |-> msg]

\* a successful spawn that does not return: the loop goes on to the next file
RECURSIVE try_spawn_each_all(_, _, _, _)
try_spawn_each_all(s, cands, okset, n) ==
  IF cands = <<>> THEN <<>>
  ELSE <<[strategy |-> s, cand |-> Head(cands), ok |-> Head(cands) \in okset, pid |-> n + 1]>>
       \o try_spawn_each_all(s, Tail(cands), okset, n + 1)

\* try_spawn for each candidate in turn, until one spawn succeeds; okset is
\* the outcome of Command::spawn for each candidate, n the calls made before
RECURSIVE try_spawn_each(_, _, _, _)
try_spawn_each(s, cands, okset, n) ==
  IF cands = <<>> THEN <<>>
  ELSE LET a == [strategy |-> s, cand |-> Head(cands),
                 ok |-> Head(cands) \in okset, pid |-> n + 1]
       IN  IF a.ok THEN <<a>>
           ELSE <<a>> \o try_spawn_each(s, Tail(cands), okset, n + 1)

\* ------------------------------------------------------ spawn_bridge_process
\* one strategy of the pipeline: try_spawn each of its candidates in turn and
\* return the first child; with none, go on to the following strategy
Evaluate(s, cands) ==
  /\ pc = s
  /\ \E okset \in SUBSET Range(cands) :
       LET att == try_spawn_each(s, cands, okset, Len(attempts))
       IN  /\ attempts' = attempts \o att
           /\ visited' = Append(visited, s)
           /\ IF att # <<>> /\ Last(att).ok
              THEN /\ result' = Ok(Last(att).pid, Last(att).cand)
                   /\ pc' = "returned"
              ELSE /\ result' = result
                   /\ pc' = After(StrategyOrder(impl, windows, debug), s)
  /\ UNCHANGED <<envVars, slot, writeVars, readVars>>

\* the candidates a strategy of implementation i try_spawns, in order, for
\* BRIDGE_DEV_CMD = cmd, the resource directory (rd) and the executable's
\* directory (ed) being known or not, and the files ex
candidates(i, s, win, cmd, rd, ed, ex) ==
  CASE s = "override" -> try_override(cmd)
    [] s = "bundled_exe" ->
         IF ~rd THEN <<>>
         ELSE IF i = "process" THEN try_bundled_exe(win, ex)
         ELSE main_bundled_exe(win, ex)
    [] s = "bundled_scripts" -> IF ~rd THEN <<>> ELSE try_bundled_scripts(ex)
    [] s = "exe_dir_binary" ->
         IF ~ed THEN <<>>
         ELSE IF i = "process" THEN try_exe_dir_binary(win, ex)
         ELSE main_exe_dir_binary(ex)
    [] s = "exe_dir_scripts" ->
         IF ~ed THEN <<>>
         ELSE IF i = "process" THEN try_exe_dir_scripts(ex)
         ELSE main_exe_dir_scripts(ex)
    [] s = "local_dev" -> try_local_dev_path(ex)
    [] s = "parent_dev" -> try_parent_dev_path(ex)
    [] s = "pnpm_dev" -> try_pnpm_dev(win)

Try(s) == Evaluate(s, candidates(impl, s, windows, cmdline, resDir, exeDir, exists))

TryOverride == Try("override")

TryBundledExe == Try("bundled_exe")

TryBundledScripts == Try("bundled_scripts")

TryExeDirBinary == Try("exe_dir_binary")

TryExeDirScripts == Try("exe_dir_scripts")

TryLocalDevPath == Try("local_dev")

TryParentDevPath == Try("parent_dev")

TryPnpmDev == Try("pnpm_dev")

\* spawn_bridge_process as a function of its inputs, the candidates of
\* okset being those whose spawn succeeds: the attempts made, and the result
spawn_bridge_process(i, win, dbg, cmd, rd, ed, ex, okset) ==
  LET order == StrategyOrder(i, win, dbg)
      RECURSIVE from(_, _)
      from(k, att) ==
        IF k > Len(order)
        THEN [attempts |-> att, result |-> Err(ErrAllFailed)]
        ELSE LET a == try_spawn_each(order[k],
                                     candidates(i, order[k], win, cmd, rd, ed, ex),
                                     okset, Len(att))
             IN  IF a # <<>> /\ Last(a).ok
                 THEN [attempts |-> att \o a, result |-> Ok(Last(a).pid, Last(a).cand)]
                 ELSE from(k + 1, att \o a)
  IN  from(1, <<>>)

\* every strategy returned no child: the aggregated error
Exhausted ==
  /\ pc = "exhausted"
  /\ result' = Err(ErrAllFailed)
  /\ pc' = "returned"
  /\ UNCHANGED <<envVars, attempts, visited, slot, writeVars, readVars>>

Locate ==
  \/ TryOverride
  \/ TryBundledExe
  \/ TryBundledScripts
  \/ TryExeDirBinary
  \/ TryExeDirScripts
  \/ TryLocalDevPath
  \/ TryParentDevPath
  \/ TryPnpmDev
  \/ Exhausted

\* ------------------------------------------------------- spawn_bridge, main
Streams == {"stdout", "stderr"}
Channel(st) == "bridge-" \o st

\* spawn_bridge with a reader thread for stdout alone
SpawnBridge_stdout_only ==
  /\ pc = "returned"
  /\ rpc' = IF result.kind = "ok" THEN [rpc EXCEPT !["stdout"] = "running"] ELSE rpc
  /\ pc' = "spawned"
  /\ UNCHANGED <<envVars, attempts, visited, result, slot, writeVars,
                 outBytes, rpos, outClosed, events>>

\* spawn_bridge after spawn_bridge_process: an error is returned at once
\* (the ? operator); for a child, one reader thread per output stream
SpawnBridge ==
  /\ pc = "returned"
  /\ rpc' = IF result.kind = "ok" THEN [st \in Streams |-> "running"] ELSE rpc
  /\ pc' = "spawned"
  /\ UNCHANGED <<envVars, attempts, visited, result, slot, writeVars,
                 outBytes, rpos, outClosed, events>>

\* the setup hook handing the spawn error on (spawn_bridge(..)?): nothing is
\* managed and the application does not start
Setup_propagates ==
  /\ pc = "spawned"
  /\ IF result.kind = "ok"
     THEN slot' = [managed |-> TRUE, pid |-> result.pid] /\ pc' = "running"
     ELSE slot' = slot /\ pc' = "setup failed"
  /\ UNCHANGED <<envVars, attempts, visited, result, writeVars, readVars>>

\* the setup hook of main: manage Some(child), or None when the spawn failed
Setup ==
  /\ pc = "spawned"
  /\ slot' = [managed |-> TRUE, pid |-> IF result.kind = "ok" THEN result.pid ELSE 0]
  /\ pc' = "running"
  /\ UNCHANGED <<envVars, attempts, visited, result, writeVars, readVars>>

\* ----------------------------------------------------------- bridge_write
Writers == {1, 2}
LF == "\n"
CR == "\r"
Data == {<<>>, <<"a">>, <<"b">>, <<"p", "i">>}

ErrNotAvailable == "bridge not available"
ErrStdinMissing == "bridge stdin missing"
ErrIo == "Broken pipe (os error 32)"

\* a lock that excludes nobody
CanLock_always(holder) == TRUE

\* Mutex::lock: the lock is taken when no call holds it
CanLock(holder) == holder = 0

\* the invoke handler runs a bridge_write(data) call on a thread of its own
Invoke(w, d) ==
  /\ pc = "running"
  /\ slot.managed
  /\ wpc[w] = "idle"
  /\ Len(calls) + Cardinality({v \in Writers : wpc[v] = "waiting"}) < MaxCalls
  /\ wpc' = [wpc EXCEPT ![w] = "waiting"]
  /\ wdata' = [wdata EXCEPT ![w] = d]
  /\ UNCHANGED <<envVars, locVars, slot, lockHolder, wcall, calls, stdin,
                 stdinClosed, flushed, readVars>>

\* let mut guard = state.0.lock().unwrap()
Lock(w) ==
  /\ wpc[w] = "waiting"
  /\ CanLock(lockHolder)
  /\ lockHolder' = w
  /\ calls' = Append(calls, [data |-> wdata[w], res |-> "pending"])
  /\ wcall' = [wcall EXCEPT ![w] = Len(calls) + 1]
  /\ wpc' = [wpc EXCEPT ![w] = "locked"]
  /\ UNCHANGED <<envVars, locVars, slot, wdata, stdin, stdinClosed, flushed, readVars>>

\* the child taken out of the slot when a write failed (guard.take())
guard_after_take(sl, r) == IF r = ErrIo THEN [sl EXCEPT !.pid = 0] ELSE sl

\* what the slot holds when the guard is dropped: the child was borrowed in
\* place (guard.as_mut()), nothing is taken out or put in
guard_after(sl, r) == sl

\* the call returns r; its guard is dropped
Return(w, r) ==
  /\ slot' = guard_after(slot, r)
  /\ calls' = [calls EXCEPT ![wcall[w]].res = r]
  /\ wpc' = [wpc EXCEPT ![w] = "idle"]
  /\ lockHolder' = 0

\* try_spawn gives every child a piped stdin, and nothing takes it
child_stdin(pid) == IF pid = 0 THEN "none" ELSE "piped"

\* the empty slot not told apart from a child without stdin
slot_check_no_none(sl) ==
  IF child_stdin(sl.pid) # "piped" THEN ErrStdinMissing ELSE "write"

\* what the slot holds decides whether anything is written
slot_check(sl) ==
  IF sl.pid = 0 THEN ErrNotAvailable
  ELSE IF child_stdin(sl.pid) # "piped" THEN ErrStdinMissing
  ELSE "write"

\* the result of write_all dropped (let _ = ...): Ok whatever the pipe did
write_all_ignored(closed, buf) ==
  {[n |-> IF closed THEN 0 ELSE Len(buf), ok |-> TRUE, closed |-> closed]}

\* ChildStdin::write_all(buf): nothing to do for an empty buffer; an error
\* on a closed pipe; otherwise all of buf (the buffers here are far shorter
\* than PIPE_BUF, so a write is atomic).  [n bytes written, ok, closed after]
write_all(closed, buf) ==
  IF buf = <<>> THEN {[n |-> 0, ok |-> TRUE, closed |-> closed]}
  ELSE IF closed THEN {[n |-> 0, ok |-> FALSE, closed |-> TRUE]}
  ELSE {[n |-> Len(buf), ok |-> TRUE, closed |-> FALSE]}

Tagged(buf, c) == [i \in DOMAIN buf |-> [b |-> buf[i], call |-> c]]

\* one write_all of the call of w; on Ok the call goes on at next
WriteStep(w, buf, next) ==
  \E o \in write_all(stdinClosed, buf) :
    /\ stdin' = stdin \o Tagged(SubSeq(buf, 1, o.n), wcall[w])
    /\ stdinClosed' = o.closed
    /\ IF o.ok
       THEN /\ wpc' = [wpc EXCEPT ![w] = next]
            /\ UNCHANGED <<calls, lockHolder, slot>>
       ELSE Return(w, ErrIo)

\* guard.as_mut(), child.stdin.as_mut(), stdin.write_all(data.as_bytes())
WriteData(w) ==
  /\ wpc[w] = "locked"
  /\ IF slot_check(slot) = "write"
     THEN WriteStep(w, wdata[w], "wrote_data")
     ELSE /\ Return(w, slot_check(slot))
          /\ UNCHANGED <<stdin, stdinClosed>>
  /\ UNCHANGED <<envVars, locVars, wdata, wcall, flushed, readVars>>

\* stdin.write_all(b"\n")
WriteNewline(w) ==
  /\ wpc[w] = "wrote_data"
  /\ WriteStep(w, <<LF>>, "wrote_nl")
  /\ UNCHANGED <<envVars, locVars, wdata, wcall, flushed, readVars>>

\* stdin.flush() (a pipe has no buffer of its own: it is Ok), return Ok(())
Flush(w) ==
  /\ wpc[w] = "wrote_nl"
  /\ flushed' = Len(stdin)
  /\ Return(w, "ok")
  /\ UNCHANGED <<envVars, locVars, wdata, wcall, stdin, stdinClosed, readVars>>

\* the child closes its stdin, or exits
ChildCloseStdin ==
  /\ result.kind = "ok"
  /\ ~stdinClosed
  /\ stdinClosed' = TRUE
  /\ UNCHANGED <<envVars, locVars, slot, lockHolder, wpc, wdata, wcall, calls,
                 stdin, flushed, readVars>>

Write ==
  \/ \E w \in Writers, d \in Data : Invoke(w, d)
  \/ \E w \in Writers : Lock(w)
  \/ \E w \in Writers : WriteData(w)
  \/ \E w \in Writers : WriteNewline(w)
  \/ \E w \in Writers : Flush(w)
  \/ ChildCloseStdin

\* ------------------------------------------------------ the reader threads
\* a byte that is not valid UTF-8 wherever it stands
BAD == "\\xFF"
OutChars == {"x", CR, LF, BAD}

\* the child writes a byte on one of its output streams
ChildPrint(st, b) ==
  /\ result.kind = "ok"
  /\ ~outClosed[st]
  /\ Len(outBytes["stdout"]) + Len(outBytes["stderr"]) < MaxOut
  /\ outBytes' = [outBytes EXCEPT ![st] = Append(@, b)]
  /\ UNCHANGED <<envVars, locVars, slot, writeVars, rpc, rpos, outClosed, events>>

\* the child closes an output stream, or exits
ChildCloseOut(st) ==
  /\ result.kind = "ok"
  /\ ~outClosed[st]
  /\ outClosed' = [outClosed EXCEPT ![st] = TRUE]
  /\ UNCHANGED <<envVars, locVars, slot, writeVars, rpc, outBytes, rpos, events>>

\* BufRead::read_until(b'\n'): the bytes up to and including the first
\* newline, or all of them when there is none
RECURSIVE read_until_newline(_)
read_until_newline(bytes) ==
  IF bytes = <<>> THEN <<>>
  ELSE IF Head(bytes) = LF THEN <<LF>>
  ELSE <<Head(bytes)>> \o read_until_newline(Tail(bytes))

\* Lines::next on the bytes of one line: "\n" is cut off and, only then, a
\* "\r" before it; bytes that are not UTF-8 make the item an Err
lines_item(raw) ==
  LET noLf == IF raw # <<>> /\ Last(raw) = LF THEN SubSeq(raw, 1, Len(raw) - 1) ELSE raw
      text == IF Len(noLf) < Len(raw) /\ noLf # <<>> /\ Last(noLf) = CR
              THEN SubSeq(noLf, 1, Len(noLf) - 1) ELSE noLf
  IN  IF \E i \in DOMAIN raw : raw[i] = BAD
      THEN [ok |-> FALSE, text |-> <<>>]
      ELSE [ok |-> TRUE, text |-> text]

\* Iterator::flatten over the lines: an Err item is skipped, an Ok item is
\* handed to the loop body, which emits it and drops the result of emit
emit_flattened(evs, item, delivered) ==
  IF item.ok THEN Append(evs, [payload |-> item.text, delivered |-> delivered])
  ELSE evs

\* a failed emit ends the loop (ah.emit(..)? or a break in place of let _ =)
reader_after_emit_checked(item, delivered) ==
  IF item.ok /\ ~delivered THEN "ended" ELSE "running"

\* the loop after one item: neither an Err item (flatten) nor a failed emit
\* (let _ =) leaves it
reader_after(item, delivered) == "running"

Unread(st) == SubSeq(outBytes[st], rpos[st] + 1, Len(outBytes[st]))

\* one turn of: for line in reader.lines().flatten() { let _ = ah.emit(..) }
\* the read waits for a whole line, or for what is left at end of input
ReadLine(st) ==
  /\ rpc[st] = "running"
  /\ Unread(st) # <<>>
  /\ (\E i \in DOMAIN Unread(st) : Unread(st)[i] = LF) \/ outClosed[st]
  /\ LET raw == read_until_newline(Unread(st))
     IN  /\ rpos' = [rpos EXCEPT ![st] = @ + Len(raw)]
         /\ \E delivered \in BOOLEAN :
              /\ events' = [events EXCEPT ![st] = emit_flattened(@, lines_item(raw), delivered)]
              /\ rpc' = [rpc EXCEPT ![st] = reader_after(lines_item(raw), delivered)]
  /\ UNCHANGED <<envVars, locVars, slot, writeVars, outBytes, outClosed>>

\* a read that finds nothing taken for the end of input
ReaderEnd_early(st) ==
  /\ rpc[st] = "running"
  /\ Unread(st) = <<>>
  /\ rpc' = [rpc EXCEPT ![st] = "ended"]
  /\ UNCHANGED <<envVars, locVars, slot, writeVars, outBytes, rpos, outClosed, events>>

\* end of input: lines() is over and the thread ends
ReaderEnd(st) ==
  /\ rpc[st] = "running"
  /\ Unread(st) = <<>>
  /\ outClosed[st]
  /\ rpc' = [rpc EXCEPT ![st] = "ended"]
  /\ UNCHANGED <<envVars, locVars, slot, writeVars, outBytes, rpos, outClosed, events>>

Forward ==
  \/ \E st \in Streams, b \in OutChars : ChildPrint(st, b)
  \/ \E st \in Streams : ChildCloseOut(st)
  \/ \E st \in Streams : ReadLine(st)
  \/ \E st \in Streams : ReaderEnd(st)

\* ---------------------------------------------------------- specifications
CmdValues(n) ==
  {[set |-> FALSE, val |-> <<>>]} \cup {[set |-> TRUE, val |-> v] : v \in StringsUpTo(n)}

LocateCmds ==
  {[set |-> FALSE, val |-> <<>>], [set |-> TRUE, val |-> <<"a">>],
   [set |-> TRUE, val |-> <<SPACE>>]}

InitRun ==
  /\ pc = Head(StrategyOrder(impl, windows, debug))
  /\ attempts = <<>>
  /\ visited = <<>>
  /\ result = NoResult
  /\ slot = [managed |-> FALSE, pid |-> 0]
  /\ lockHolder = 0
  /\ wpc = [w \in Writers |-> "idle"]
  /\ wdata = [w \in Writers |-> <<>>]
  /\ wcall = [w \in Writers |-> 0]
  /\ calls = <<>>
  /\ stdin = <<>>
  /\ stdinClosed = FALSE
  /\ flushed = 0
  /\ rpc = [st \in Streams |-> "none"]
  /\ outBytes = [st \in Streams |-> <<>>]
  /\ rpos = [st \in Streams |-> 0]
  /\ outClosed = [st \in Streams |-> FALSE]
  /\ events = [st \in Streams |-> <<>>]

Startup == Locate \/ SpawnBridge \/ Setup

\* the resolution pipeline over the file system
InitLocate ==
  /\ impl \in Impls
  /\ windows \in BOOLEAN
  /\ debug \in BOOLEAN
  /\ cmdline \in LocateCmds
  /\ resDir \in BOOLEAN
  /\ exeDir \in BOOLEAN
  /\ exists \in SubsetsUpTo(Paths, MaxExisting)
  /\ InitRun

SpecLocate == InitLocate /\ [][Startup]_vars

\* the resolution pipeline over the values of BRIDGE_DEV_CMD
InitCmd ==
  /\ impl \in Impls
  /\ windows \in BOOLEAN
  /\ debug \in BOOLEAN
  /\ cmdline \in CmdValues(MaxCmdLen)
  /\ resDir = TRUE
  /\ exeDir = TRUE
  /\ exists \in {{}, {join(RES, <<"bridge", "dist", index("cjs")>>)}}
  /\ InitRun

SpecCmd == InitCmd /\ [][Startup]_vars

\* a host with few files, for what happens after the start
InitHost ==
  /\ impl \in Impls
  /\ windows = FALSE
  /\ debug \in BOOLEAN
  /\ cmdline \in {[set |-> FALSE, val |-> <<>>], [set |-> TRUE, val |-> <<"a">>]}
  /\ resDir = TRUE
  /\ exeDir = TRUE
  /\ exists = {}
  /\ InitRun

\* start, then concurrent bridge_write calls
SpecWrite == InitHost /\ [][Startup \/ Write]_vars

\* start, then the child's output and the two reader threads
SpecForward == InitHost /\ [][Startup \/ Forward]_vars

\* the same, each reader thread being scheduled as long as it can run
SpecForwardFair ==
  /\ SpecForward
  /\ \A st \in Streams : WF_vars(ReadLine(st)) /\ WF_vars(ReaderEnd(st))

Next == Startup \/ Write \/ Forward

\* ================================================================== claims
Order == StrategyOrder(impl, windows, debug)
Returned == pc \in {"returned", "spawned", "running"}
Succeeded == {i \in DOMAIN attempts : attempts[i].ok}
Evaluated == Range(visited)

\* the file an attempt runs exists (the override and pnpm name no file)
CandidateExists(a) ==
  \/ a.strategy \in {"override", "pnpm_dev"}
  \/ a.cand.prog \in exists
  \/ /\ a.cand.prog = <<"node">>
     /\ \E p \in exists : a.cand.args = <<p>> \/ a.cand.args = <<canonicalize(p)>>

\* C1: spawn_bridge_process returns the child of the first successful spawn,
\* the strategies being taken in the pipeline's order and each attempt being
\* for a candidate that exists; every earlier attempt failed, a successful
\* spawn is always the one returned, and nothing is attempted or evaluated
\* after it.
C1_FirstSuccessReturned ==
  /\ \A i \in DOMAIN attempts : CandidateExists(attempts[i])
  /\ \A i, j \in DOMAIN attempts :
       i < j => /\ ~attempts[i].ok
                /\ IndexOf(Order, attempts[i].strategy) <= IndexOf(Order, attempts[j].strategy)
  /\ Succeeded # {} =>
       /\ result = Ok(Last(attempts).pid, Last(attempts).cand)
       /\ Last(visited) = Last(attempts).strategy
       /\ pc \notin Range(Order)
  /\ result.kind = "ok" => Succeeded # {}

\* C1 witness: a child was returned after an earlier attempt failed, while a
\* file that a later strategy would have run exists and was never attempted
C1_Witness ==
  /\ pc = "running"
  /\ result.kind = "ok"
  /\ Len(attempts) = 2
  /\ attempts[2].strategy = "bundled_scripts"
  /\ \E p \in exists : p = local_rel("cjs")

\* the strategies whose every spawn attempt failed
FailedStrategies ==
  {s \in Evaluated :
     /\ \E i \in DOMAIN attempts : attempts[i].strategy = s
     /\ \A i \in DOMAIN attempts : attempts[i].strategy = s => ~attempts[i].ok}

\* C2: when every spawn attempt of a strategy N failed, the resolution goes
\* on: the strategy after N is evaluated next, no error is returned before
\* the last strategy was evaluated, and a successful spawn of a later
\* strategy is the child returned.
C2_FailureFallsThrough ==
  \A s \in FailedStrategies :
    LET k == IndexOf(Order, s)
    IN  /\ k < Len(Order) => (pc = Order[k + 1] \/ Order[k + 1] \in Evaluated)
        /\ result.kind = "err" => Last(Order) \in Evaluated
        /\ \A i \in DOMAIN attempts :
             (attempts[i].ok /\ IndexOf(Order, attempts[i].strategy) > k)
               => result = Ok(attempts[i].pid, attempts[i].cand)

\* C2 witness: node failed for a bundled script and the script beside the
\* executable was then spawned and returned
C2_Witness ==
  /\ pc = "running"
  /\ Len(attempts) = 2
  /\ attempts[1].strategy = "bundled_scripts" /\ ~attempts[1].ok
  /\ attempts[2].strategy = "exe_dir_scripts" /\ attempts[2].ok
  /\ result = Ok(attempts[2].pid, attempts[2].cand)

\* the priority of a strategy in the specification's list
SpecRank(s) ==
  CASE s = "override" -> 1
    [] s = "bundled_exe" -> 2
    [] s = "bundled_scripts" -> 3
    [] s = "exe_dir_binary" -> 4
    [] s = "exe_dir_scripts" -> 5
    [] s = "local_dev" -> 6
    [] s = "parent_dev" -> 7
    [] s = "pnpm_dev" -> 8

ExeDirBinaries == {join(EXE, <<bridge_exe_name(windows)>>),
                   join(EXE, <<"_up_", bridge_exe_name(windows)>>)}

\* C3 (as claimed): spawn attempts follow the specification's priority
\* order, and when a native binary exists beside the executable no script
\* beside the executable is attempted before that binary was.
C3_SpecOrder ==
  /\ \A i, j \in DOMAIN attempts :
       i < j => SpecRank(attempts[i].strategy) <= SpecRank(attempts[j].strategy)
  /\ \A j \in DOMAIN attempts :
       (attempts[j].strategy = "exe_dir_scripts" /\ ExeDirBinaries \cap exists # {})
         => \E i \in 1..(j - 1) : attempts[i].strategy = "exe_dir_binary"

\* BRIDGE_DEV_CMD is set and holds a program name
HasToken == cmdline.set /\ \E i \in DOMAIN cmdline.val : cmdline.val[i] \notin WhiteSpace

\* C4 (as claimed): with BRIDGE_DEV_CMD set to a command line, the process
\* returned is the override's and nothing else was spawned.
C4_OverrideUnconditional ==
  (HasToken /\ Returned) =>
    /\ result.kind = "ok"
    /\ Len(attempts) = 1
    /\ attempts[1].strategy = "override"

\* C4 (amended): with BRIDGE_DEV_CMD set to a command line, the override is
\* the first spawn attempt; when that spawn succeeds its child is returned
\* and no other candidate is attempted.
C4_OverrideFirst ==
  (HasToken /\ visited # <<>>) =>
    /\ attempts # <<>>
    /\ attempts[1].strategy = "override"
    /\ attempts[1].ok =>
         /\ result = Ok(attempts[1].pid, attempts[1].cand)
         /\ Len(attempts) = 1
         /\ visited = <<"override">>

\* C4 witness: the override was spawned and returned although a bundled
\* binary exists
C4_Witness ==
  /\ pc = "running"
  /\ HasToken
  /\ attempts # <<>> /\ attempts[1].ok /\ attempts[1].strategy = "override"
  /\ join(RES, <<bridge_exe_name(windows)>>) \in exists

\* the maximal runs of non-whitespace characters of s, by their positions
RunStarts(s) == {i \in DOMAIN s : s[i] \notin WhiteSpace /\ (i = 1 \/ s[i - 1] \in WhiteSpace)}
RunEnd(s, i) ==
  CHOOSE j \in i..Len(s) :
    /\ \A k \in i..j : s[k] \notin WhiteSpace
    /\ j = Len(s) \/ s[j + 1] \in WhiteSpace
KthStart(s, k) == CHOOSE i \in RunStarts(s) : Cardinality({j \in RunStarts(s) : j < i}) = k - 1
Runs(s) == [k \in 1..Cardinality(RunStarts(s)) |-> SubSeq(s, KthStart(s, k), RunEnd(s, KthStart(s, k)))]

\* C5: BRIDGE_DEV_CMD is split at whitespace, a quote being a character
\* like any other: the first run of non-whitespace characters is the program
\* and the following runs are its arguments, in order; a value without such
\* a run (unset, empty, whitespace only) gives no override attempt and the
\* resolution goes on with the bundled binary.
C5_WhitespaceSplit ==
  visited # <<>> =>
    IF cmdline.set /\ Runs(cmdline.val) # <<>>
    THEN /\ attempts # <<>>
         /\ attempts[1].strategy = "override"
         /\ attempts[1].cand.prog = Runs(cmdline.val)[1]
         /\ attempts[1].cand.args = Tail(Runs(cmdline.val))
    ELSE /\ \A i \in DOMAIN attempts : attempts[i].strategy # "override"
         /\ pc = "bundled_exe" \/ "bundled_exe" \in Evaluated

\* C5 witness: a value with a quote and a tab: "a<TAB>a gives program "a
\* with the one argument a
C5_Witness ==
  /\ cmdline = [set |-> TRUE, val |-> <<QUOTE, "a", TAB, "a">>]
  /\ attempts # <<>>
  /\ attempts[1].cand = Cand(<<QUOTE, "a">>, << <<"a">> >>)

\* C6: the resolution returns an error exactly when every strategy of the
\* build was evaluated and no spawn succeeded; the error is the aggregated
\* message, whatever failed on the way.
C6_ErrorIffExhausted ==
  /\ Returned =>
       /\ result.kind \in {"ok", "err"}
       /\ result.kind = "err" <=> (visited = Order /\ Succeeded = {})
  /\ result.kind = "err" => (Returned /\ result = Err(ErrAllFailed) /\ result.msg = ErrAllFailed)

\* C6 witness: two files were found, both spawns failed, and the caller got
\* the aggregated error
C6_Witness ==
  /\ pc = "running"
  /\ result.kind = "err"
  /\ Len(attempts) >= 2
  /\ slot = [managed |-> TRUE, pid |-> 0]

Bytes(tagged) == [i \in DOMAIN tagged |-> tagged[i].b]
\* the bytes a call put on the child's stdin
BytesOf(c) == Bytes(SelectSeq(stdin, LAMBDA e : e.call = c))
LineOf(d) == d \o <<LF>>
IsPrefix(p, q) == Len(p) <= Len(q) /\ SubSeq(q, 1, Len(p)) = p
\* data + "\n" of the calls that returned Ok, in the order of the lock
RECURSIVE OkLines(_)
OkLines(cs) ==
  IF cs = <<>> THEN <<>>
  ELSE (IF Head(cs).res = "ok" THEN LineOf(Head(cs).data) ELSE <<>>) \o OkLines(Tail(cs))
Quiet == \A w \in Writers : wpc[w] \in {"idle", "waiting"}
InCall == {w \in Writers : wpc[w] \in {"locked", "wrote_data", "wrote_nl"}}

\* C7 (as claimed): when no call is under way, the child's input is the
\* concatenation of data + "\n" of the calls that returned Ok, in the order
\* in which they took the lock.
C7_OnlyOkLines ==
  Quiet => Bytes(stdin) = OkLines(calls)

\* C7 (amended): a call that returned Ok put exactly data + "\n" on the
\* child's stdin, once, and flushed it; the child's input is made of the
\* calls' bytes in the order in which they took the lock, all of
\* data + "\n" for a call that returned Ok and a prefix of it for a call that
\* failed.
C7_LinesAndPrefixes ==
  /\ \A i \in DOMAIN stdin : stdin[i].call \in DOMAIN calls
  /\ \A i, j \in DOMAIN stdin : i < j => stdin[i].call <= stdin[j].call
  /\ \A c \in DOMAIN calls :
       /\ IsPrefix(BytesOf(c), LineOf(calls[c].data))
       /\ calls[c].res = "ok" =>
            /\ BytesOf(c) = LineOf(calls[c].data)
            /\ slot.pid # 0
            /\ flushed >= Cardinality({i \in DOMAIN stdin : stdin[i].call <= c})

\* C7 witness: two calls returned Ok and the child's input is pi\na\n
C7_Witness ==
  /\ Len(calls) = 2
  /\ calls[1] = [data |-> <<"p", "i">>, res |-> "ok"]
  /\ calls[2] = [data |-> <<"a">>, res |-> "ok"]
  /\ Bytes(stdin) = <<"p", "i", LF, "a", LF>>
  /\ flushed = 5

\* C8: the bytes of one call are never parted by a byte of another call:
\* between taking the lock and returning, a call is alone, and it holds the
\* lock.
C8_NoInterleaving ==
  /\ \A i, j, k \in DOMAIN stdin :
       (i < j /\ j < k /\ stdin[i].call = stdin[k].call) => stdin[j].call = stdin[i].call
  /\ Cardinality(InCall) <= 1
  /\ \A w \in InCall : lockHolder = w
  /\ \A c, d \in DOMAIN calls :
       (c < d /\ calls[c].res = "ok" /\ calls[d].res = "ok" /\ Len(calls) = 2 /\ Quiet)
         => Bytes(stdin) = LineOf(calls[c].data) \o LineOf(calls[d].data)

\* C8 witness: write("a") and write("b") are under way together, one having
\* written its data and not yet its newline while the other waits for the lock
C8_Witness ==
  \E w, v \in Writers :
    /\ wpc[w] = "wrote_data" /\ wdata[w] = <<"a">>
    /\ wpc[v] = "waiting" /\ wdata[v] = <<"b">>
    /\ Bytes(stdin) = <<"a">>

\* C9: with an empty slot a call returns "bridge not available" and writes
\* nothing: it only takes the lock, which no call holds longer than to look at
\* the slot.  With a child in the slot a call returns Ok or the error of the
\* failed write, and it returns that error exactly when it did not put its
\* whole line on the pipe.
C9_WriteErrors ==
  /\ \A c \in DOMAIN calls :
       calls[c].res # "pending" =>
         IF slot.pid = 0
         THEN calls[c].res = ErrNotAvailable
         ELSE /\ calls[c].res \in {"ok", ErrIo}
              /\ calls[c].res = ErrIo <=> BytesOf(c) # LineOf(calls[c].data)
              /\ calls[c].res = ErrIo => stdinClosed
  /\ slot.pid = 0 =>
       /\ stdin = <<>>
       /\ \A w \in Writers :
            /\ wpc[w] \in {"idle", "waiting", "locked"}
            /\ (wpc[w] = "waiting" /\ lockHolder # 0) => wpc[lockHolder] = "locked"

\* C9 witness: the spawn failed, the slot is empty, and two calls came back
\* with "bridge not available"
C9_Witness ==
  /\ slot = [managed |-> TRUE, pid |-> 0]
  /\ Len(calls) >= 2
  /\ \A c \in DOMAIN calls : calls[c].res = ErrNotAvailable

\* the complete lines of a byte sequence, by the positions of its newlines,
\* each without its "\n" or "\r\n"
NewlinesOf(bytes) == {i \in DOMAIN bytes : bytes[i] = LF}
KthNewline(bytes, k) ==
  IF k = 0 THEN 0
  ELSE CHOOSE i \in NewlinesOf(bytes) : Cardinality({j \in NewlinesOf(bytes) : j < i}) = k - 1
WithoutCr(line) ==
  IF line # <<>> /\ Last(line) = CR THEN SubSeq(line, 1, Len(line) - 1) ELSE line
CompleteLines(bytes) ==
  [k \in 1..Cardinality(NewlinesOf(bytes)) |->
     WithoutCr(SubSeq(bytes, KthNewline(bytes, k - 1) + 1, KthNewline(bytes, k) - 1))]
Consumed(st) == SubSeq(outBytes[st], 1, rpos[st])
Payloads(st) == [i \in DOMAIN events[st] |-> events[st][i].payload]

\* C10 (as claimed): on each stream, once the reader has read N complete
\* lines, N events were emitted on the stream's channel, in order, each
\* with one line without its terminator.
C10_EveryLineAnEvent ==
  \A st \in Streams :
    (Consumed(st) = <<>> \/ Last(Consumed(st)) = LF)
      => Payloads(st) = CompleteLines(Consumed(st))

\* the complete lines of a byte sequence as they stand, terminator cut off
RawLines(bytes) ==
  [k \in 1..Cardinality(NewlinesOf(bytes)) |->
     SubSeq(bytes, KthNewline(bytes, k - 1) + 1, KthNewline(bytes, k) - 1)]
IsUtf8(line) == \A i \in DOMAIN line : line[i] # BAD
\* the emit calls owed for the bytes consumed: one for each line of valid
\* UTF-8, a rest without newline at the end of input being a line too
OwedPayloads(st) ==
  LET done == Consumed(st)
      whole == SubSeq(done, 1, KthNewline(done, Cardinality(NewlinesOf(done))))
      rest == SubSeq(done, Len(whole) + 1, Len(done))
  IN  Map(WithoutCr, SelectSeq(RawLines(whole), IsUtf8))
      \o (IF rest # <<>> /\ IsUtf8(rest) THEN <<rest>> ELSE <<>>)
\* a newline the child wrote is still to be read
UnreadLine(st) == \E n \in (rpos[st] + 1)..Len(outBytes[st]) : outBytes[st][n] = LF

\* C11: a failed emit neither ends the reader nor is tried again: each line
\* read has one emit call whether delivered or not, a reader ends only at the
\* end of input with everything read, and, the thread being scheduled, every
\* line the child wrote is eventually read by a running reader.
C11_FailedEmitGoesOn ==
  /\ [](\A st \in Streams :
          /\ Payloads(st) = OwedPayloads(st)
          /\ rpc[st] = "ended" => (outClosed[st] /\ rpos[st] = Len(outBytes[st])))
  /\ \A st \in Streams :
       (rpc[st] = "running" /\ UnreadLine(st)) ~> ~UnreadLine(st)

\* C11 witness: the emit of the first line failed and the second line was
\* read and emitted all the same
C11_Witness ==
  /\ outBytes["stdout"] = <<"x", LF, LF>>
  /\ rpos["stdout"] = 3
  /\ events["stdout"] = <<[payload |-> <<"x">>, delivered |-> FALSE],
                          [payload |-> <<>>, delivered |-> TRUE]>>

\* C12: a reader ends only at the end of input, with everything read; once
\* ended it stays ended and emits nothing more; and, the thread being
\* scheduled, a reader whose stream the child closed (or left by exiting)
\* eventually ends.
C12_ReadersEndAtEof ==
  /\ [](\A st \in Streams :
          rpc[st] = "ended" => (outClosed[st] /\ rpos[st] = Len(outBytes[st])))
  /\ [][\A st \in Streams :
          rpc[st] = "ended" => (rpc'[st] = "ended" /\ events'[st] = events[st])]_vars
  /\ \A st \in Streams : (rpc[st] = "running" /\ outClosed[st]) ~> (rpc[st] = "ended")

\* C12 witness: the child closed both streams and both readers have ended,
\* the last line having been read after the close
C12_Witness ==
  /\ \A st \in Streams : outClosed[st] /\ rpc[st] = "ended"
  /\ outBytes["stderr"] = <<"x", LF>>
  /\ Len(events["stderr"]) = 1

\* C13 (as claimed): a reader that met a read error (lines() gave an Err,
\* as it does for a line that is not UTF-8) has ended.
C13_ReadErrorEndsReader ==
  \A st \in Streams :
    (\E i \in 1..rpos[st] : outBytes[st][i] = BAD) => rpc[st] = "ended"

\* the pipeline is between its first strategy and its return
PipelineRunning == pc \in Range(Order) \cup {"exhausted"}

\* C14: the slot never holds more than one process and the pipeline runs
\* once, alone: at most one spawn ever succeeded, a process in the slot is
\* that one, no strategy is evaluated a second time, and the slot is managed
\* (so that a command can reach it) only after the pipeline has returned.
C14_OneProcessOnePipeline ==
  /\ Cardinality(Succeeded) <= 1
  /\ slot.pid # 0 =>
       /\ slot.managed
       /\ result.kind = "ok" /\ slot.pid = result.pid
       /\ \A i \in Succeeded : attempts[i].pid = slot.pid
  /\ \A i, j \in DOMAIN visited : visited[i] = visited[j] => i = j
  /\ slot.managed => ~PipelineRunning /\ pc = "running"
  /\ PipelineRunning => slot = [managed |-> FALSE, pid |-> 0]

\* C14 witness: the second attempt of the run succeeded and its process is
\* the one in the slot
C14_Witness ==
  /\ slot.managed /\ slot.pid = 2
  /\ Len(attempts) = 2 /\ ~attempts[1].ok /\ attempts[2].ok

\* C15: when the pipeline returned Err, setup does not fail: the slot is
\* managed empty, the application is running, every bridge_write that
\* returned gave "bridge not available", and nothing was written or read.
C15_FailedStartEmptySlot ==
  result.kind = "err" =>
    /\ pc \in {"returned", "spawned", "running"}
    /\ pc = "spawned" => ENABLED Setup
    /\ pc = "running" <=> slot.managed
    /\ slot.pid = 0
    /\ \A c \in DOMAIN calls : calls[c].res \in {"pending", ErrNotAvailable}
    /\ stdin = <<>>
    /\ \A st \in Streams : rpc[st] = "none"

\* C15 witness: both the override and pnpm failed to spawn, setup managed an
\* empty slot, and a bridge_write of "pi" came back with the error
C15_Witness ==
  /\ result = Err(ErrAllFailed)
  /\ Len(attempts) = 2
  /\ pc = "running" /\ slot = [managed |-> TRUE, pid |-> 0]
  /\ \E c \in DOMAIN calls :
       calls[c] = [data |-> <<"p", "i">>, res |-> ErrNotAvailable]

AttemptsOf(s) == {i \in DOMAIN attempts : attempts[i].strategy = s}
Attempted(s, cand) == \E i \in AttemptsOf(s) : attempts[i].cand = cand

\* C17 (as claimed): once the bundled native binary strategy has been
\* evaluated with a resource directory, only binaries of the platform's name
\* were attempted, the one directly in the resource directory was attempted
\* if it exists, and the one in _up_ was attempted if it exists and the
\* direct one gave no child.
C17_BundledExePlatformName ==
  LET direct == join(RES, <<bridge_exe_name(windows)>>)
      up == join(RES, <<"_up_", bridge_exe_name(windows)>>)
  IN  ("bundled_exe" \in Evaluated /\ resDir) =>
        /\ \A i \in AttemptsOf("bundled_exe") :
             attempts[i].cand \in {Binary(direct), Binary(up)}
        /\ direct \in exists => Attempted("bundled_exe", Binary(direct))
        /\ (up \in exists /\ \A i \in AttemptsOf("bundled_exe") : ~attempts[i].ok)
             => Attempted("bundled_exe", Binary(up))

\* the seven strategies the specification lists before the fallback
SevenStrategies == {"override", "bundled_exe", "bundled_scripts", "exe_dir_binary",
                    "exe_dir_scripts", "local_dev", "parent_dev"}
\* the fallback was reached, or a production build ran out of strategies
LastResort == \/ "pnpm_dev" \in Evaluated \/ pc = "pnpm_dev"
              \/ (~debug /\ Returned /\ result.kind = "err")

\* pnpm is evaluated in a development build only, as the last strategy of
\* the running pipeline, after every earlier attempt failed; a production
\* build that runs out of strategies returns the aggregated error
PnpmDebugOnlyAndLast ==
  /\ ("pnpm_dev" \in Evaluated \/ AttemptsOf("pnpm_dev") # {} \/ pc = "pnpm_dev") =>
       /\ debug
       /\ Range(Order) \ {"pnpm_dev"} \subseteq
            {visited[k] : k \in 1..(IndexOf(Order, "pnpm_dev") - 1)}
       /\ \A i \in AttemptsOf("pnpm_dev") :
            i = Len(attempts) /\ \A j \in 1..(i - 1) : ~attempts[j].ok
  /\ (~debug /\ Returned /\ result.kind = "err") =>
       /\ result = Err(ErrAllFailed)
       /\ Range(Order) \subseteq Evaluated

\* C18 (as claimed): the fallback is for development builds and comes last,
\* and it is reached, like the aggregated error of a production build, only
\* after each of the seven earlier strategies gave no child: a native binary
\* that exists beside the executable was attempted, and failed, before.
C18_PnpmAfterSevenFailed ==
  /\ PnpmDebugOnlyAndLast
  /\ LastResort =>
       /\ SevenStrategies \ {"exe_dir_binary"} \subseteq Evaluated
       /\ (exeDir /\ ExeDirBinaries \cap exists # {}) =>
            AttemptsOf("exe_dir_binary") # {}

ReaderTasks == {st \in Streams : rpc[st] # "none"}

\* C19: once spawn_bridge has returned, a spawned child has two reader
\* threads, one on stdout and one on stderr, and a failed spawn has none; no
\* reader exists before; and spawn_bridge can return whatever the child has
\* or has not written or closed by then.
C19_TwoReadersBeforeReturn ==
  /\ pc \in {"spawned", "running"} =>
       IF result.kind = "ok"
       THEN ReaderTasks = {"stdout", "stderr"} /\ Cardinality(ReaderTasks) = 2
       ELSE ReaderTasks = {}
  /\ pc \notin {"spawned", "running"} =>
       /\ ReaderTasks = {}
       /\ \A st \in Streams : rpos[st] = 0 /\ events[st] = <<>>
  /\ pc = "returned" => ENABLED SpawnBridge

\* C19 witness: spawn_bridge has returned the child with both readers
\* running while the child has written nothing and closed nothing
C19_Witness ==
  /\ pc = "spawned" /\ result.kind = "ok"
  /\ \A st \in Streams :
       rpc[st] = "running" /\ outBytes[st] = <<>> /\ ~outClosed[st]

\* the OS processes the run has created: Command::spawn leaves a process
\* when it returns Ok and none when it returns Err
Processes == {attempts[i].pid : i \in Succeeded}

\* C20: a run of spawn_bridge_process never has more than one process: the
\* failed attempts left none, a run that returned Ok has exactly the child
\* it returned, and a run that returned Err has none.
C20_AtMostOneProcess ==
  /\ Cardinality(Processes) <= 1
  /\ \A i \in DOMAIN attempts : ~attempts[i].ok => attempts[i].pid \notin Processes
  /\ Returned =>
       IF result.kind = "ok" THEN Processes = {result.pid} ELSE Processes = {}

\* C20 witness: two spawns failed, the third gave the child returned, and
\* that child is the only process
C20_Witness ==
  /\ Returned /\ result.kind = "ok" /\ result.pid = 3
  /\ Len(attempts) = 3 /\ ~attempts[1].ok /\ ~attempts[2].ok
  /\ Processes = {3}

\* C21: no step of a bridge_write call changes what the slot holds; once the
\* child has gone (its end of stdin closed) the slot still holds it, and a
\* call that writes after that returns the write error, never "bridge not
\* available": it leaves its first write_all only with that error or, for
\* empty data, towards the newline, whose write_all fails.
C21_WriteKeepsSlot ==
  /\ [][(calls' # calls \/ wpc' # wpc \/ wdata' # wdata \/ stdin' # stdin
           \/ flushed' # flushed \/ lockHolder' # lockHolder) => slot' = slot]_vars
  /\ []((stdinClosed /\ pc = "running") =>
          /\ slot = [managed |-> TRUE, pid |-> result.pid] /\ slot.pid # 0
          /\ \A c \in DOMAIN calls :
               (calls[c].res # "pending" /\ BytesOf(c) = <<>>) => calls[c].res = ErrIo)
  /\ [][\A w \in Writers :
          (stdinClosed /\ slot.pid # 0 /\ wpc[w] \in {"locked", "wrote_data"}) =>
            /\ wpc'[w] = "idle" => calls'[wcall[w]].res = ErrIo
            /\ wpc'[w] \notin {"idle", wpc[w]} => (wpc[w] = "locked" /\ wdata[w] = <<>>)]_vars

\* C21 witness: the child went away before anything was written; two calls,
\* one after the other, came back with the write error and the slot still
\* holds the child
C21_Witness ==
  /\ stdinClosed /\ stdin = <<>>
  /\ slot.managed /\ slot.pid # 0
  /\ Len(calls) = 2
  /\ \A c \in DOMAIN calls : calls[c].res = ErrIo

\* the run of implementation i on the inputs of this run
RunOf(i, okset) ==
  spawn_bridge_process(i, windows, debug, cmdline, resDir, exeDir, exists, okset)
\* every candidate either implementation has for these inputs
AllCandidates ==
  UNION {Range(candidates(i, s, windows, cmdline, resDir, exeDir, exists)) :
           i \in Impls, s \in SevenStrategies \cup {"pnpm_dev"}}
\* the candidates attempted, in order, each with its outcome
Tried(run) ==
  [k \in DOMAIN run.attempts |-> [cand |-> run.attempts[k].cand, ok |-> run.attempts[k].ok]]

\* the run the actions made is the run of spawn_bridge_process for the
\* spawn outcomes seen
PipelineAgrees ==
  Returned =>
    RunOf(impl, {attempts[j].cand : j \in Succeeded})
      = [attempts |-> attempts, result |-> result]

\* C22 (as claimed): for the inputs of a finished run and every spawn
\* outcome of the candidates that agrees with what the run saw, process.rs
\* and main.rs attempt the same candidates in the same order, with the same
\* outcomes, and return the same candidate or the same error.
C22_ImplementationsEquivalent ==
  Returned =>
    \A okset \in SUBSET AllCandidates :
      RunOf(impl, okset).attempts = attempts =>
        /\ Tried(RunOf("process", okset)) = Tried(RunOf("main", okset))
        /\ RunOf("process", okset).result = RunOf("main", okset).result

ScriptStrategies == {"bundled_scripts", "exe_dir_scripts", "local_dev", "parent_dev"}
\* the scripts of a strategy in the claimed order, directory by directory
\* and index.cjs before index.js: the file probed and the path node is given
ListedScripts(s) ==
  LET same(paths) == [k \in DOMAIN paths |-> [file |-> paths[k], run |-> paths[k]]]
      canon(paths) == [k \in DOMAIN paths |-> [file |-> paths[k], run |-> canonicalize(paths[k])]]
  IN  CASE s = "bundled_scripts" ->
             same(scripts_in(<<join(RES, <<"bridge", "dist">>), RES,
                               join(RES, <<"_up_", "bridge", "dist">>)>>))
        [] s = "exe_dir_scripts" ->
             same(scripts_in(<<join(EXE, <<"bridge", "dist">>),
                               join(EXE, <<"_up_", "bridge", "dist">>)>>))
        [] s = "local_dev" -> canon(<<local_rel(Exts[1]), local_rel(Exts[2])>>)
        [] s = "parent_dev" -> canon(<<parent_rel(Exts[1]), parent_rel(Exts[2])>>)

\* every attempt of a strategy of S runs node on a script of the strategy's
\* list, each script before it in the list being absent or having been
\* attempted earlier in the strategy without success
InListedOrder(S) ==
  \A j \in DOMAIN attempts :
    attempts[j].strategy \in S =>
      LET list == ListedScripts(attempts[j].strategy)
      IN  \E k \in DOMAIN list :
            /\ attempts[j].cand = Node(list[k].run)
            /\ \A e \in 1..(k - 1) :
                 \/ list[e].file \notin exists
                 \/ \E i \in 1..(j - 1) :
                      /\ attempts[i].strategy = attempts[j].strategy
                      /\ attempts[i].cand = Node(list[e].run)
                      /\ ~attempts[i].ok

\* C23 (as claimed): every attempt of a script strategy runs node on a
\* script of the strategy's list, and by then each script before it in the
\* list (an earlier directory, or index.cjs of the same directory) is absent
\* or was attempted earlier in the strategy and failed to spawn.
C23_ScriptOrder == InListedOrder(ScriptStrategies)

\* the same for bridge/process.rs alone, and for every script strategy of
\* main.rs but the scripts beside the executable
ScriptOrderElsewhere ==
  IF impl = "process" THEN InListedOrder(ScriptStrategies)
  ELSE InListedOrder(ScriptStrategies \ {"exe_dir_scripts"})

====
